---- MODULE Spec2Model ----
(***************************************************************************)
(* A model of JsTaskRunner (packages/@n8n/task-runner, js-task-runner.ts): *)
(* one task travelling through executeTask, runForAllItems and             *)
(* runForEachItem, with the thrown-value normalizer                        *)
(* toExecutionErrorIfNeeded computed as the code computes it.              *)
(*                                                                         *)
(* JavaScript values are tagged records ([type |-> "string", str |-> s],   *)
(* [type |-> "undefined"], ...).  A "completion" is the outcome of running *)
(* a piece of code: [threw |-> FALSE, value |-> v] for a normal return and *)
(* [threw |-> TRUE, error |-> e] for a throw.                              *)
(***************************************************************************)
EXTENDS Integers, Sequences, FiniteSets, TLC

\* ------------------------------------------------------------------ bounds
\* Largest number of input items in a data bundle.
MaxItems == 3
\* Largest number of console.log calls the sandboxed code makes in a task.
MaxLogs == 1

\* ------------------------------------------------------- JavaScript values
Undefined == [type |-> "undefined"]
Null == [type |-> "null"]
Str(s) == [type |-> "string", str |-> s]
Num(n) == [type |-> "number", num |-> n]
Bool(b) == [type |-> "boolean", bool |-> b]
\* A plain data object {a: n}.
Obj(n) == [type |-> "object", a |-> n]
\* A BigInt, and an object that refers to itself: neither has a JSON text.
BigInt == [type |-> "bigint"]
Circular == [type |-> "circular"]
\* A native Error of the runner's own realm (instanceof Error holds).
NativeError(cls, msg) == [type |-> "Error", cls |-> cls, message |-> Str(msg)]
\* An object with a string message that is no instance of the runner's Error
\* (an error created inside the VM, or a duck-typed {message: ...}).
ErrorLikeObject(msg) == [type |-> "errorLike", message |-> Str(msg)]

Return(v) == [threw |-> FALSE, value |-> v]
Throw(e) == [threw |-> TRUE, error |-> e]

\* The values a code body can throw.
ThrownValues ==
    { ErrorLikeObject("boom"), NativeError("Error", "boom"),
      Str("oops"), Num(42), Bool(TRUE), Null, Undefined, Obj(1),
      BigInt, Circular }

\* ------------------------------------------------------------ JSON.stringify
Digit(d) == CASE d = 0 -> "0" [] d = 1 -> "1" [] d = 2 -> "2" [] d = 3 -> "3"
              [] d = 4 -> "4" [] d = 5 -> "5" [] d = 6 -> "6" [] d = 7 -> "7"
              [] d = 8 -> "8" [] d = 9 -> "9"

RECURSIVE DecimalText(_)
DecimalText(n) == IF n < 10 THEN Digit(n)
                  ELSE DecimalText(n \div 10) \o Digit(n % 10)

Quote(s) == "\"" \o s \o "\""

\* JSON.stringify(v): a completion whose value is a string or undefined;
\* a BigInt and a circular structure throw a TypeError.
JSONstringify(v) ==
    CASE v.type = "string" -> Return(Str(Quote(v.str)))
      [] v.type = "number" -> Return(Str(DecimalText(v.num)))
      [] v.type = "boolean" -> Return(Str(IF v.bool THEN "true" ELSE "false"))
      [] v.type = "null" -> Return(Str("null"))
      [] v.type = "object" ->
             Return(Str("{" \o Quote("a") \o ":" \o DecimalText(v.a) \o "}"))
      [] v.type = "undefined" -> Return(Undefined)
      [] v.type = "bigint" ->
             Throw(NativeError("TypeError", "Do not know how to serialize a BigInt"))
      [] v.type = "circular" ->
             Throw(NativeError("TypeError", "Converting circular structure to JSON"))

\* ----------------------------------------------------------- error classes
\* error instanceof Error
InstanceOfError(error) == error.type = "Error"

\* isErrorLike(error): an object carrying a string message.
isErrorLike(error) == error.type \in {"errorLike", "Error"}

\* makeSerializable(error): the same error, message kept, marked serializable.
makeSerializable(error) ==
    [type |-> "Error", cls |-> error.cls, message |-> error.message,
     normalized |-> TRUE]

\* new ExecutionError({message}): an execution error carrying that message;
\* built on Error, whose message is the empty string when it is given none.
ExecutionError(errorLike) ==
    [type |-> "Error", cls |-> "ExecutionError",
     message |-> IF errorLike.message = Undefined THEN Str("")
                 ELSE errorLike.message,
     normalized |-> TRUE]

\* ------------------------------------------------- toExecutionErrorIfNeeded
\* A completion: the normalizer returns an Error, or the JSON.stringify call
\* of its last line throws.
toExecutionErrorIfNeeded(error) ==
    IF InstanceOfError(error) THEN Return(makeSerializable(error))
    ELSE IF isErrorLike(error) THEN Return(ExecutionError(error))
    ELSE LET text == JSONstringify(error)
         IN  IF text.threw THEN Throw(text.error)
             ELSE Return(ExecutionError([message |-> text.value]))

\* --------------------------------------------------------- require resolver
\* The module loader of a sandbox: a module outside its allow-list is refused
\* with an error naming it.
requireResolver(request) ==
    Throw(NativeError("DisallowedModuleError",
                      "Cannot find module '" \o request \o "'"))

\* ------------------------------------------------------ module allow-lists
\* Configuration strings and module names are sequences of characters, so
\* that split and trim are computed.  Unset is a missing configuration entry.
Unset == [set |-> FALSE]
Configured(chars) == [set |-> TRUE, chars |-> chars]

\* String.prototype.split(','): the pieces between the commas.
RECURSIVE SplitAtCommas(_)
SplitAtCommas(chars) ==
    IF \A i \in DOMAIN chars : chars[i] # ","
    THEN << chars >>
    ELSE LET c == CHOOSE i \in DOMAIN chars :
                     chars[i] = "," /\ \A j \in 1..(i - 1) : chars[j] # ","
         IN  << SubSeq(chars, 1, c - 1) >>
                 \o SplitAtCommas(SubSeq(chars, c + 1, Len(chars)))

\* String.prototype.trim(): without the leading and trailing blanks.
RECURSIVE trim(_)
trim(chars) ==
    IF chars = << >> THEN chars
    ELSE IF Head(chars) = " " THEN trim(Tail(chars))
    ELSE IF chars[Len(chars)] = " " THEN trim(SubSeq(chars, 1, Len(chars) - 1))
    ELSE chars

\* parseModuleAllowList without the trim of the entries.
parseModuleAllowList_NoTrim(moduleList) ==
    IF moduleList = << "*" >> THEN [all |-> TRUE]
    ELSE [all |-> FALSE,
          modules |-> { SplitAtCommas(moduleList)[i] :
                          i \in DOMAIN SplitAtCommas(moduleList) }]

\* parseModuleAllowList: null (permit all) for '*', else the set of the
\* trimmed comma-separated entries.
parseModuleAllowList(moduleList) ==
    IF moduleList = << "*" >> THEN [all |-> TRUE]
    ELSE [all |-> FALSE,
          modules |-> { trim(SplitAtCommas(moduleList)[i]) :
                          i \in DOMAIN SplitAtCommas(moduleList) }]

\* jsRunnerConfig.allowed...Modules ?? ''
OrEmpty(entry) == IF entry.set THEN entry.chars ELSE << >>

\* The constructor's two lists for a configuration.
ConstructedBuiltIn(config) == parseModuleAllowList(OrEmpty(config.allowedBuiltInModules))
ConstructedExternal(config) == parseModuleAllowList(OrEmpty(config.allowedExternalModules))

\* The modules Node.js ships, among those the code can ask for.
BuiltInModules == { << "f", "s" >>, << "o", "s" >> }
\* What the sandboxed code can ask for: built-in modules and packages.
Requests == BuiltInModules \cup { << "m", "s" >>, << "m", "d" >> }

RECURSIVE Text(_)
Text(chars) == IF chars = << >> THEN "" ELSE Head(chars) \o Text(Tail(chars))

\* The resolver built from the two lists: a built-in module is looked up in the
\* built-in list, anything else in the external list; a module outside its
\* list is refused with an error naming it.
resolve(request, builtIn, external) ==
    LET list == IF request \in BuiltInModules THEN builtIn ELSE external
    IN  IF list.all \/ request \in list.modules
        THEN Return([type |-> "module", name |-> Text(request)])
        ELSE Throw(NativeError("DisallowedModuleError",
                               "Cannot find module '" \o Text(request) \o "'"))

\* The configuration strings tried.
ConfigEntries ==
    { Unset,
      Configured(<< >>),
      Configured(<< "*" >>),
      Configured(<< "f", "s" >>),
      Configured(<< " ", "f", "s", " ", ",", "o", "s" >>),
      Configured(<< "m", "s", ",", " ", "m", "d" >>),
      Configured(<< "*", ",", "f", "s" >>) }

\* ---------------------------------------------------------- result validation
ValidationError(msg) == NativeError("ValidationError", msg)

\* validateRunForAllItemsOutput(result): an ordered sequence of records is
\* returned as it is, anything else is a shape mismatch.
validateRunForAllItemsOutput(res) ==
    IF res.type = "array" THEN Return(res.items)
    ELSE Throw(ValidationError("Code doesn't return items properly"))

\* validateRunForEachItemOutput(result, index): exactly one record is returned
\* as it is; a sequence, a scalar or undefined is a shape mismatch that names
\* the item.
validateRunForEachItemOutput(res, idx) ==
    IF res.type = "item" THEN Return(res.item)
    ELSE IF res.type = "array"
         THEN Throw(ValidationError("Code doesn't return a single object [item "
                                    \o DecimalText(idx) \o "]"))
         ELSE Throw(ValidationError("Code doesn't return an object [item "
                                    \o DecimalText(idx) \o "]"))

\* ------------------------------------------------------------ runForAllItems
\* AllItemsTry without the null test of line 192.
AllItemsTry_NoNullTest(evaluation) ==
    IF evaluation.threw THEN evaluation
    ELSE validateRunForAllItemsOutput(evaluation.value)

\* The try block: the awaited evaluation, the null test, the validator.
AllItemsTry(evaluation) ==
    IF evaluation.threw THEN evaluation
    ELSE IF evaluation.value = Null THEN Return(<<>>)
    ELSE validateRunForAllItemsOutput(evaluation.value)

\* The catch block.
AllItemsCatch(e, continueOnFail) ==
    LET normalized == toExecutionErrorIfNeeded(e)
    IN  IF normalized.threw THEN normalized
        ELSE IF continueOnFail
             THEN Return(<< [json |-> [error |-> normalized.value.message]] >>)
             ELSE Throw(normalized.value)

\* What runForAllItems settles with once the evaluation has settled.
AllItemsSettle(evaluation, continueOnFail) ==
    LET tried == AllItemsTry(evaluation)
    IN  IF tried.threw THEN AllItemsCatch(tried.error, continueOnFail) ELSE tried

\* ----------------------------------------------------------- runForEachItem
\* PairedRecord with the position reference counted from 1.
PairedRecord_OffByOne(res, idx) ==
    IF "binary" \in DOMAIN res
    THEN [json |-> res.json, pairedItem |-> [item |-> idx + 1],
          binary |-> res.binary]
    ELSE [json |-> res.json, pairedItem |-> [item |-> idx + 1]]

\* The record pushed for the validated result of item idx.
PairedRecord(res, idx) ==
    IF "binary" \in DOMAIN res
    THEN [json |-> res.json, pairedItem |-> [item |-> idx],
          binary |-> res.binary]
    ELSE [json |-> res.json, pairedItem |-> [item |-> idx]]

\* EachItemTry without the null filter of line 243.
EachItemTry_NoNullTest(rd, idx, evaluation) ==
    IF evaluation.threw THEN evaluation
    ELSE LET validated == validateRunForEachItemOutput(evaluation.value, idx)
         IN  IF validated.threw THEN validated
             ELSE IF validated.value # Undefined
                  THEN Return(Append(rd, PairedRecord(validated.value, idx)))
                  ELSE Return(rd)

\* The try block of one iteration: its value is the new returnData.
EachItemTry(rd, idx, evaluation) ==
    IF evaluation.threw THEN evaluation
    ELSE IF evaluation.value = Null THEN Return(rd)
    ELSE LET validated == validateRunForEachItemOutput(evaluation.value, idx)
         IN  IF validated.threw THEN validated
             ELSE IF validated.value # Undefined
                  THEN Return(Append(rd, PairedRecord(validated.value, idx)))
                  ELSE Return(rd)

\* EachItemCatch that drops a validator rejection instead of branching on
\* continueOnFail.
EachItemCatch_SwallowsValidation(rd, idx, e, continueOnFail) ==
    IF e.type = "Error" /\ e.cls = "ValidationError" THEN Return(rd)
    ELSE LET normalized == toExecutionErrorIfNeeded(e)
         IN  IF normalized.threw THEN normalized
             ELSE IF ~continueOnFail THEN Throw(normalized.value)
             ELSE Return(Append(rd, [json |-> [error |-> normalized.value.message],
                                     pairedItem |-> [item |-> idx]]))

\* The catch block of one iteration.
EachItemCatch(rd, idx, e, continueOnFail) ==
    LET normalized == toExecutionErrorIfNeeded(e)
    IN  IF normalized.threw THEN normalized
        ELSE IF ~continueOnFail THEN Throw(normalized.value)
        ELSE Return(Append(rd, [json |-> [error |-> normalized.value.message],
                                pairedItem |-> [item |-> idx]]))

\* One iteration once its evaluation has settled: the new returnData, or the
\* error that leaves the loop.
EachItemSettle(rd, idx, evaluation, continueOnFail) ==
    LET tried == EachItemTry(rd, idx, evaluation)
    IN  IF tried.threw THEN EachItemCatch(rd, idx, tried.error, continueOnFail)
        ELSE tried

\* ------------------------------------------------------------------- state
VARIABLES
    pc,          \* where executeTask stands
    settings,    \* task.settings
    allData,     \* the data bundle, once requestData has resolved
    index,       \* the loop variable of runForEachItem
    returnData,  \* the array runForEachItem fills
    contexts,    \* every sandbox context built, in order
    evals,       \* every settled evaluation of the code, in order
    requests,    \* every requestData call made, in order
    rpcCalls,    \* every makeRpcCall made, in order
    result,      \* what runForAllItems / runForEachItem resolved with
    taskResult,  \* how executeTask settled
    timers,      \* callbacks the sandboxed code scheduled and that have not run
    rpcReplies,  \* the orchestrator's answers to the makeRpcCall calls
    marks,       \* the properties sandboxed code has set on objects it reaches
    jsRunnerConfig,          \* the two allow-list strings of the configuration
    allowedBuiltInModules,   \* the constructor's parsed built-in allow-list
    allowedExternalModules,  \* the constructor's parsed external allow-list
    resolutions,             \* the require calls made, with their outcome
    view,        \* SettingsApiView: the component's data
    server,      \* SettingsApiView: the settings store's server and requests
    ui           \* SettingsApiView: modal, toasts and telemetry

engineVars == << pc, settings, allData, index, returnData, contexts, evals,
                 requests, rpcCalls, result, taskResult >>
sideVars == << timers, rpcReplies, marks >>
resolverVars == << jsRunnerConfig, allowedBuiltInModules,
                   allowedExternalModules, resolutions >>
viewVars == << view, server, ui >>

vars == << engineVars, sideVars, resolverVars, viewVars >>

TaskId == "task-1"

NoSettings == [present |-> FALSE]
JSExecSettings(nodeMode, continueOnFail) ==
    [present |-> TRUE, nodeMode |-> nodeMode, continueOnFail |-> continueOnFail]

NoData == [arrived |-> FALSE]
\* A bundle of n input items; item i carries the payload {id: i}.
AllCodeTaskData(n) ==
    [arrived |-> TRUE,
     connectionInputData |-> [i \in 1..n |-> [json |-> [id |-> i - 1]]],
     itemIndex |-> 0,
     metadata |-> [source |-> "bundle"]]

\* The same bundle carrying the orchestrator's environment-provider state.
AllCodeTaskDataWithEnv(n, envProviderState) ==
    [arrived |-> TRUE,
     connectionInputData |-> [i \in 1..n |-> [json |-> [id |-> i - 1]]],
     itemIndex |-> 0,
     metadata |-> [source |-> "bundle"],
     envProviderState |-> envProviderState]

Pending == [state |-> "pending"]

\* ------------------------------------------------------------ the user's code
\* What one evaluation of the code body in run-once-for-all-items mode can
\* settle with, given the bound items.
AllItemsEvaluations(items) ==
    { Return(v) : v \in { Null, Undefined, Obj(1), Num(42),
                          [type |-> "array", items |-> << >>],
                          [type |-> "array", items |-> << [json |-> [a |-> 1]] >>],
                          [type |-> "array",
                           items |-> [i \in 1..Len(items) |->
                                         [json |-> items[i].json]]] } }
    \cup { Throw(v) : v \in ThrownValues }
    \cup { requireResolver("disallowed-module") }

\* What one evaluation in run-once-for-each-item mode can settle with, given
\* the bound item and $itemIndex.
EachItemEvaluations(item, idx) ==
    { Return(v) : v \in { Null, Undefined, Num(42),
                          [type |-> "item", item |-> [json |-> [v |-> idx]]],
                          [type |-> "item",
                           item |-> [json |-> item.json,
                                     binary |-> [data |-> "bytes"]]],
                          [type |-> "array",
                           items |-> << [json |-> [v |-> idx]] >>] } }
    \cup { Throw(v) : v \in ThrownValues }
    \cup { requireResolver("disallowed-module") }

\* ------------------------------------------------------------------ contexts
\* getNativeVariables(): the names of the host globals put in every context.
getNativeVariables ==
    { "Buffer", "Function", "eval", "setTimeout", "setInterval", "setImmediate",
      "clearTimeout", "clearInterval", "clearImmediate", "btoa", "atob",
      "TextDecoder", "TextDecoderStream", "TextEncoder", "TextEncoderStream",
      "FormData" }

\* A createDataProxy that never looks at the bundle's provider state.
createDataProxy_IgnoresBundle(data, itemIndex) ==
    [itemIndex |-> itemIndex,
     envProviderState |-> [env |-> {}, isEnvAccessBlocked |-> FALSE,
                           isProcessAvailable |-> TRUE]]

\* createDataProxy(allData, workflow, itemIndex): the proxy's item index and
\* the environment-provider state handed to WorkflowDataProxy.
createDataProxy(data, itemIndex) ==
    [itemIndex |-> itemIndex,
     envProviderState |->
         IF "envProviderState" \in DOMAIN data
         THEN data.envProviderState
         ELSE [env |-> {}, isEnvAccessBlocked |-> FALSE,
               isProcessAvailable |-> TRUE]]

\* The module record {} made for the context of unit idx.
ModuleRecord(idx) == "module#" \o DecimalText(idx)

\* The contexts name the objects they hold: the one resolver of the runner
\* ("requireResolver"), the one console of the task ("customConsole"), the
\* module record made for the unit, and the host's globals by their names.
AllItemsContext(data) ==
    [items |-> data.connectionInputData, console |-> "customConsole",
     require |-> "requireResolver", module |-> ModuleRecord(data.itemIndex),
     natives |-> getNativeVariables,
     dataProxy |-> createDataProxy(data, data.itemIndex)]

EachItemContext(data, idx) ==
    [item |-> data.connectionInputData[idx + 1], itemIndex |-> idx,
     console |-> "customConsole", require |-> "requireResolver",
     module |-> ModuleRecord(idx), natives |-> getNativeVariables,
     dataProxy |-> createDataProxy(data, idx)]

\* console.log's line for one argument: an object is serialized, anything
\* else is passed through.
logOutput(arg) ==
    IF arg.type = "object" THEN JSONstringify(arg).value.str
    ELSE IF arg.type = "number" THEN DecimalText(arg.num)
    ELSE arg.str

\* -------------------------------------------------------------------- Init
\* The runner after its constructor ran on configuration config.
InitRunner(config) ==
    /\ jsRunnerConfig = config
    /\ allowedBuiltInModules = ConstructedBuiltIn(config)
    /\ allowedExternalModules = ConstructedExternal(config)
    /\ resolutions = {}

\* executeTask has not been called.
InitTask ==
    /\ pc = "Idle"
    /\ allData = NoData
    /\ index = 0
    /\ returnData = << >>
    /\ contexts = << >>
    /\ evals = << >>
    /\ requests = << >>
    /\ rpcCalls = << >>
    /\ result = << >>
    /\ taskResult = Pending
    /\ timers = {}
    /\ rpcReplies = {}
    /\ marks = {}

\* The component's data() before its mounted() hook ran, the settings store
\* with the requests it has under way and those answered, and the page: the
\* confirm modal, the toasts shown, the telemetry events tracked and what the
\* user did.
InitView(enabled) ==
    /\ view = [loading |-> FALSE, mounted |-> FALSE, apiKeys |-> << >>,
               swaggerUIEnabled |-> FALSE, apiDocsURL |-> ""]
    /\ server = [isPublicApiEnabled |-> enabled, nextId |-> 1, pending |-> {},
                 answered |-> << >>]
    /\ ui = [hook |-> "created", modal |-> "closed", messages |-> << >>,
             tracked |-> << >>, createClicks |-> 0, deleteClicks |-> 0,
             confirms |-> 0]

NoConfig == [allowedBuiltInModules |-> Unset, allowedExternalModules |-> Unset]

Init ==
    /\ settings \in {NoSettings}
           \cup { JSExecSettings(m, c) :
                    m \in {"runOnceForAllItems", "runOnceForEachItem"},
                    c \in BOOLEAN }
    /\ InitTask
    /\ InitRunner(NoConfig)
    /\ InitView(TRUE)

\* executeTask rejects with error e.
Reject(e) ==
    /\ pc' = "Failed"
    /\ taskResult' = [state |-> "thrown", error |-> e]

\* ----------------------------------------------------------------- actions
\* StartTask that asks for the bundle twice.
StartTask_RequestsTwice ==
    /\ pc = "Idle"
    /\ requests' = requests \o << [taskId |-> TaskId, dataType |-> "all"],
                                  [taskId |-> TaskId, dataType |-> "all"] >>
    /\ pc' = "BundleFetchPending"
    /\ UNCHANGED << settings, allData, index, returnData, contexts, evals,
                    rpcCalls, result, taskResult >>
    /\ UNCHANGED << sideVars, resolverVars, viewVars >>

\* executeTask is called: its first statement issues requestData(taskId, 'all')
\* and awaits the answer.
StartTask ==
    /\ pc = "Idle"
    /\ requests' = Append(requests, [taskId |-> TaskId, dataType |-> "all"])
    /\ pc' = "BundleFetchPending"
    /\ UNCHANGED << settings, allData, index, returnData, contexts, evals,
                    rpcCalls, result, taskResult >>
    /\ UNCHANGED << sideVars, resolverVars, viewVars >>

\* The orchestrator refuses the bundle: the await of line 105 throws.
RequestDataRejects ==
    /\ pc = "BundleFetchPending"
    /\ Reject(NativeError("RequestError", "request failed"))
    /\ UNCHANGED << settings, allData, index, returnData, contexts, evals,
                    requests, rpcCalls, result >>
    /\ UNCHANGED << sideVars, resolverVars, viewVars >>

\* A loop head that starts the evaluations of item idx and of the item after
\* it together, without awaiting the first.
EnterIteration_StartsTwo(idx, rd, data, proxyThrows) ==
    /\ index' = idx
    /\ returnData' = rd
    /\ IF idx < Len(data.connectionInputData)
       THEN IF proxyThrows
            THEN /\ Reject(NativeError("DataProxyError", "proxy failed"))
                 /\ UNCHANGED << contexts, result >>
            ELSE /\ contexts' =
                        IF idx + 1 < Len(data.connectionInputData)
                        THEN contexts \o << EachItemContext(data, idx),
                                            EachItemContext(data, idx + 1) >>
                        ELSE Append(contexts, EachItemContext(data, idx))
                 /\ pc' = "Executing"
                 /\ UNCHANGED << result, taskResult >>
       ELSE /\ result' = rd
            /\ pc' = "ResultPending"
            /\ UNCHANGED << contexts, taskResult >>

\* Head of the loop of runForEachItem for index idx with returnData rd: either
\* the proxy and context of item idx are built and its evaluation starts, or
\* the loop is over and runForEachItem returns rd.
EnterIteration(idx, rd, data, proxyThrows) ==
    /\ index' = idx
    /\ returnData' = rd
    /\ IF idx < Len(data.connectionInputData)
       THEN IF proxyThrows
            THEN /\ Reject(NativeError("DataProxyError", "proxy failed"))
                 /\ UNCHANGED << contexts, result >>
            ELSE /\ contexts' = Append(contexts, EachItemContext(data, idx))
                 /\ pc' = "Executing"
                 /\ UNCHANGED << result, taskResult >>
       ELSE /\ result' = rd
            /\ pc' = "ResultPending"
            /\ UNCHANGED << contexts, taskResult >>

\* Start of runForAllItems: the proxy and the one context are built and the
\* evaluation starts.
EnterAllItems(data, proxyThrows) ==
    /\ IF proxyThrows
       THEN /\ Reject(NativeError("DataProxyError", "proxy failed"))
            /\ UNCHANGED contexts
       ELSE /\ contexts' = Append(contexts, AllItemsContext(data))
            /\ pc' = "Executing"
            /\ UNCHANGED taskResult
    /\ UNCHANGED << index, returnData, result >>

\* requestData resolved with bundle data: executeTask runs on to its next
\* await (lines 107-130).
ResolveWith(data, proxyThrows) ==
    /\ pc = "BundleFetchPending"
    /\ allData' = data
    /\ IF ~settings.present
       THEN /\ Reject(NativeError("AssertionError", "JS Code not sent to runner"))
            /\ UNCHANGED << index, returnData, contexts, result >>
       ELSE IF settings.nodeMode = "runOnceForAllItems"
            THEN EnterAllItems(data, proxyThrows)
            ELSE EnterIteration(0, << >>, data, proxyThrows)
    /\ UNCHANGED << settings, evals, requests, rpcCalls >>
    /\ UNCHANGED << sideVars, resolverVars, viewVars >>

\* The bundle arrives.
RequestDataResolves ==
    /\ pc = "BundleFetchPending"
    /\ \E n \in 0..MaxItems, proxyThrows \in BOOLEAN :
         ResolveWith(AllCodeTaskData(n), proxyThrows)

\* A customConsole.log that puts its call in front of those already sent.
makeLogCall_Prepends(arg) ==
    rpcCalls' = << [taskId |-> TaskId, method |-> "logNodeOutput",
                    args |-> << logOutput(arg) >>] >> \o rpcCalls

\* customConsole.log(arg): one makeRpcCall whose promise is dropped.
makeLogCall(arg) ==
    rpcCalls' = Append(rpcCalls,
                       [taskId |-> TaskId, method |-> "logNodeOutput",
                        args |-> << logOutput(arg) >>])

\* The sandboxed code calls console.log while it runs.
ConsoleLog ==
    /\ pc = "Executing"
    /\ Len(rpcCalls) < MaxLogs
    /\ \E arg \in {Str("hi"), Obj(1)} : makeLogCall(arg)
    /\ UNCHANGED << pc, settings, allData, index, returnData, contexts, evals,
                    requests, result, taskResult >>
    /\ UNCHANGED << sideVars, resolverVars, viewVars >>

\* The awaited evaluation of runForAllItems settles with ev.
AllItemsSettlesWith(ev) ==
    /\ pc = "Executing"
    /\ settings.nodeMode = "runOnceForAllItems"
    /\ LET c == AllItemsSettle(ev, settings.continueOnFail)
       IN  /\ evals' = Append(evals, [outcome |-> ev])
           /\ IF c.threw
              THEN Reject(c.error) /\ UNCHANGED result
              ELSE /\ result' = c.value
                   /\ pc' = "ResultPending"
                   /\ UNCHANGED taskResult
    /\ UNCHANGED << settings, allData, index, returnData, contexts, requests,
                    rpcCalls >>
    /\ UNCHANGED << sideVars, resolverVars, viewVars >>

\* The awaited evaluation of runForAllItems settles.
AllItemsEvaluationSettles ==
    /\ pc = "Executing"
    /\ \E ev \in AllItemsEvaluations(allData.connectionInputData) :
         AllItemsSettlesWith(ev)

\* The awaited evaluation of the current item settles: the rest of the
\* iteration runs, then the head of the next one.
EachItemSettlesWith(ev, proxyThrows) ==
    /\ pc = "Executing"
    /\ settings.nodeMode = "runOnceForEachItem"
    /\ LET c == EachItemSettle(returnData, index, ev, settings.continueOnFail)
       IN  /\ evals' = Append(evals, [index |-> index, outcome |-> ev])
           /\ IF c.threw
              THEN /\ Reject(c.error)
                   /\ UNCHANGED << index, returnData, contexts, result >>
              ELSE EnterIteration(index + 1, c.value, allData, proxyThrows)
    /\ UNCHANGED << settings, allData, requests, rpcCalls >>
    /\ UNCHANGED << sideVars, resolverVars, viewVars >>

\* The awaited evaluation of the current item settles.
EachItemEvaluationSettles ==
    /\ pc = "Executing"
    /\ settings.nodeMode = "runOnceForEachItem"
    /\ \E ev \in EachItemEvaluations(allData.connectionInputData[index + 1], index),
          proxyThrows \in BOOLEAN :
         EachItemSettlesWith(ev, proxyThrows)

\* A return that forgets the bundle's metadata.
ReturnResult_DropsMetadata ==
    /\ pc = "ResultPending"
    /\ taskResult' = [state |-> "returned", result |-> result,
                      customData |-> [source |-> "none"]]
    /\ pc' = "Completed"
    /\ UNCHANGED << settings, allData, index, returnData, contexts, evals,
                    requests, rpcCalls, result >>
    /\ UNCHANGED << sideVars, resolverVars, viewVars >>

\* executeTask returns {result, customData}.
ReturnResult ==
    /\ pc = "ResultPending"
    /\ taskResult' = [state |-> "returned", result |-> result,
                      customData |-> allData.metadata]
    /\ pc' = "Completed"
    /\ UNCHANGED << settings, allData, index, returnData, contexts, evals,
                    requests, rpcCalls, result >>
    /\ UNCHANGED << sideVars, resolverVars, viewVars >>

Next ==
    \/ StartTask
    \/ RequestDataRejects
    \/ RequestDataResolves
    \/ ConsoleLog
    \/ AllItemsEvaluationSettles
    \/ EachItemEvaluationSettles
    \/ ReturnResult

Spec == Init /\ [][Next]_vars

\* ------------------------------------------------- what the sandbox is given
\* A second specification looks at what the code of one unit finds in its
\* context: the bundle may carry an environment-provider state, and the code
\* may write a property on an object its context holds.
MaxWrites == 2

\* Environment-provider states a bundle can carry.
ProviderStates ==
    { [env |-> {"N8N_ENCRYPTION_KEY"}, isEnvAccessBlocked |-> FALSE,
       isProcessAvailable |-> TRUE],
      [env |-> {}, isEnvAccessBlocked |-> TRUE, isProcessAvailable |-> FALSE] }

Bundles ==
    { AllCodeTaskData(n) : n \in 0..MaxItems }
    \cup { AllCodeTaskDataWithEnv(n, st) : n \in 1..MaxItems, st \in ProviderStates }

\* The execution unit a context was built for.
UnitOf(context) == context.dataProxy.itemIndex

\* The objects the code of a context can reach through its globals.
ReachableObjects(context) ==
    {context.console, context.require, context.module} \cup context.natives

\* The objects the modelled code writes a property on.
WrittenObjects(context) ==
    {context.console, context.require, context.module, "Buffer"}

InitSandbox ==
    /\ settings \in { JSExecSettings(m, TRUE) :
                         m \in {"runOnceForAllItems", "runOnceForEachItem"} }
    /\ InitTask
    /\ InitRunner(NoConfig)
    /\ InitView(TRUE)

\* The bundle arrives, with or without an environment-provider state.
BundleArrives ==
    /\ pc = "BundleFetchPending"
    /\ \E data \in Bundles : ResolveWith(data, FALSE)

\* The running code assigns a property of an object of its context
\* (console.seen = ..., require.cache = ..., module.exports = ...,
\* Buffer.poolSize = ...).
SandboxWrites ==
    /\ pc = "Executing"
    /\ Cardinality(marks) < MaxWrites
    /\ LET context == contexts[Len(contexts)]
       IN  \E object \in WrittenObjects(context) :
               marks' = marks \cup {[object |-> object, unit |-> UnitOf(context)]}
    /\ UNCHANGED << engineVars, timers, rpcReplies, resolverVars, viewVars >>

\* The evaluation of the current unit settles: with the items, with null, or
\* by throwing.
SandboxEvaluationSettles ==
    /\ pc = "Executing"
    /\ IF settings.nodeMode = "runOnceForAllItems"
       THEN \E ev \in { Return([type |-> "array",
                                 items |-> [i \in 1..Len(allData.connectionInputData) |->
                                     [json |-> allData.connectionInputData[i].json]]]),
                         Return(Null), Throw(NativeError("Error", "boom")) } :
                AllItemsSettlesWith(ev)
       ELSE \E ev \in { Return([type |-> "item", item |-> [json |-> [v |-> index]]]),
                         Return(Null), Throw(NativeError("Error", "boom")) } :
                EachItemSettlesWith(ev, FALSE)

NextSandbox ==
    \/ StartTask
    \/ BundleArrives
    \/ SandboxWrites
    \/ SandboxEvaluationSettles
    \/ ReturnResult

SpecSandbox == InitSandbox /\ [][NextSandbox]_vars

\* ---------------------------------------------------------- the side channel
\* A fourth specification follows the log calls: the code logs its $itemIndex,
\* may leave a setTimeout callback that logs later, and the orchestrator
\* answers the calls or not.
MaxLogCalls == 2
MaxTimers == 1

\* What the callback left by unit u logs.
LateText(u) == "late " \o DecimalText(u)

\* The calls sent by timer callbacks, and those sent by the code directly.
LateCalls == { i \in DOMAIN rpcCalls :
                 \E u \in 0..MaxItems : rpcCalls[i].args[1] = LateText(u) }
DirectCalls == DOMAIN rpcCalls \ LateCalls

InitSideChannel ==
    /\ settings \in { JSExecSettings(m, FALSE) :
                         m \in {"runOnceForAllItems", "runOnceForEachItem"} }
    /\ InitTask
    /\ InitRunner(NoConfig)
    /\ InitView(TRUE)

\* The bundle arrives with at least one item.
ItemsArrive ==
    /\ pc = "BundleFetchPending"
    /\ \E n \in 1..MaxItems : ResolveWith(AllCodeTaskData(n), FALSE)

\* The running code calls console.log($itemIndex).
CodeLogs ==
    /\ pc = "Executing"
    /\ Cardinality(DirectCalls) < MaxLogCalls
    /\ makeLogCall(Num(UnitOf(contexts[Len(contexts)])))
    /\ UNCHANGED << pc, settings, allData, index, returnData, contexts, evals,
                    requests, result, taskResult >>
    /\ UNCHANGED << sideVars, resolverVars, viewVars >>

\* The running code calls setTimeout(() => console.log('late ' + $itemIndex)).
CodeSetsTimer ==
    /\ pc = "Executing"
    /\ Cardinality(timers) + Cardinality(LateCalls) < MaxTimers
    /\ timers' = timers \cup {[unit |-> UnitOf(contexts[Len(contexts)]),
                                id |-> Cardinality(timers) + Cardinality(LateCalls) + 1]}
    /\ UNCHANGED << engineVars, rpcReplies, marks, resolverVars, viewVars >>

\* The event loop runs a due timer callback: it logs, whatever the engine is
\* awaiting by then.
TimerFires ==
    /\ pc # "Crashed"
    /\ \E t \in timers :
          /\ timers' = timers \ {t}
          /\ makeLogCall(Str(LateText(t.unit)))
    /\ UNCHANGED << pc, settings, allData, index, returnData, contexts, evals,
                    requests, result, taskResult >>
    /\ UNCHANGED << rpcReplies, marks, resolverVars, viewVars >>

\* The calls no reply has come for.
Unanswered == { i \in DOMAIN rpcCalls : \A r \in rpcReplies : r.call # i }

\* The orchestrator acknowledges a call: the dropped promise resolves.
RpcAcknowledged ==
    /\ \E i \in Unanswered :
          rpcReplies' = rpcReplies \cup {[call |-> i, status |-> "success"]}
    /\ UNCHANGED << engineVars, timers, marks, resolverVars, viewVars >>

\* The orchestrator answers a call with an error: the promise dropped by
\* `void` rejects with no handler attached.  Node either only warns or ends
\* the process (the default of --unhandled-rejections); a task still under way
\* then never settles.
RpcRejected ==
    /\ \E i \in Unanswered :
          rpcReplies' = rpcReplies \cup {[call |-> i, status |-> "error"]}
    /\ \E processEnds \in BOOLEAN :
          IF processEnds /\ pc \notin {"Completed", "Failed"}
          THEN pc' = "Crashed" /\ taskResult' = [state |-> "lost"]
          ELSE UNCHANGED << pc, taskResult >>
    /\ UNCHANGED << settings, allData, index, returnData, contexts, evals,
                    requests, rpcCalls, result >>
    /\ UNCHANGED << timers, marks, resolverVars, viewVars >>

NextSideChannel ==
    \/ StartTask
    \/ ItemsArrive
    \/ CodeLogs
    \/ CodeSetsTimer
    \/ TimerFires
    \/ SandboxEvaluationSettles
    \/ ReturnResult
    \/ RpcAcknowledged
    \/ RpcRejected

SpecSideChannel == InitSideChannel /\ [][NextSideChannel]_vars

\* The same without the orchestrator's answers: the order of the log calls.
NextLogOrder ==
    \/ StartTask
    \/ ItemsArrive
    \/ CodeLogs
    \/ CodeSetsTimer
    \/ TimerFires
    \/ SandboxEvaluationSettles
    \/ ReturnResult

SpecLogOrder == InitSideChannel /\ [][NextLogOrder]_vars

\* ------------------------------------------------------------ the life cycle
\* A fifth specification for the course of one task: the bundle request is
\* answered, every awaited evaluation settles, and the engine's own
\* continuations run.
NextLifecycle ==
    \/ StartTask
    \/ RequestDataRejects
    \/ RequestDataResolves
    \/ SandboxEvaluationSettles
    \/ ReturnResult

SpecLifecycle ==
    /\ Init
    /\ [][NextLifecycle]_vars
    /\ WF_vars(StartTask)
    /\ WF_vars(RequestDataRejects \/ RequestDataResolves)
    /\ WF_vars(SandboxEvaluationSettles)
    /\ WF_vars(ReturnResult)

\* -------------------------------------------------------- the API-keys view
\* A sixth specification for the SettingsApiView component: its mounted()
\* hook, its three handlers split at their awaits, the store's answers and
\* the user's clicks on what the template shows.
MaxCreateClicks == 2
MaxDeleteClicks == 2

MODAL_CONFIRM == "confirm"
MODAL_CANCEL == "cancel"

\* An ApiKey as the store returns it.
ApiKey(id) == [id |-> id, label |-> "API Key", apiKey |-> "n8n_api_*"]

\* What the key listing can return: no key, or the one key the user has.
Listings == { << >>, << ApiKey(0) >> }

\* The next request number of the store.
NextSeq == Len(server.answered) + Cardinality(server.pending) + 1

\* The template: which of its three branches is rendered.
ShowsKeyCard == Len(view.apiKeys) > 0
ShowsCreateBox(isTrialing, isLoadingCloudPlans) ==
    /\ ~ShowsKeyCard
    /\ ~(~server.isPublicApiEnabled /\ isTrialing)
    /\ view.mounted /\ ~isLoadingCloudPlans

showError(kind) == [type |-> "error", title |-> kind]
showMessage(kind) == [type |-> "success", title |-> kind]

Send(request) == [server EXCEPT !.pending = @ \cup {request}]
Answer(request, status) ==
    [server EXCEPT !.pending = @ \ {request},
                   !.answered = Append(@, [kind |-> request.kind, status |-> status])]

InitSettingsApi ==
    /\ settings = NoSettings
    /\ InitTask
    /\ InitRunner(NoConfig)
    /\ \E enabled \in BOOLEAN : InitView(enabled)

\* mounted(): without the public API nothing is loaded; otherwise getApiKeys
\* is started and the documentation link is set.
MountedHook ==
    /\ ui.hook = "created"
    /\ ui' = [ui EXCEPT !.hook = "mounted"]
    /\ IF ~server.isPublicApiEnabled
       THEN UNCHANGED << view, server >>
       ELSE /\ server' = Send([kind |-> "getApiKeys", seq |-> NextSeq])
            /\ \E isSwaggerUIEnabled \in BOOLEAN :
                  view' = [view EXCEPT
                      !.swaggerUIEnabled = isSwaggerUIEnabled,
                      !.apiDocsURL = IF isSwaggerUIEnabled
                                     THEN "baseUrl/api/v1/docs"
                                     ELSE "https://docs.n8n.io/api/api-reference/"]
    /\ UNCHANGED << engineVars, sideVars, resolverVars >>

\* getApiKeys after its await: the listing arrived.
GetApiKeysResolves ==
    /\ \E request \in server.pending, keys \in Listings :
          /\ request.kind = "getApiKeys"
          /\ server' = Answer(request, "success")
          /\ view' = [view EXCEPT !.apiKeys = keys, !.mounted = TRUE]
    /\ UNCHANGED << ui, engineVars, sideVars, resolverVars >>

\* getApiKeys after its await: the listing failed.
GetApiKeysRejects ==
    /\ \E request \in server.pending :
          /\ request.kind = "getApiKeys"
          /\ server' = Answer(request, "error")
    /\ ui' = [ui EXCEPT !.messages = Append(@, showError("settings.api.view.error"))]
    /\ view' = [view EXCEPT !.mounted = TRUE]
    /\ UNCHANGED << engineVars, sideVars, resolverVars >>

\* The user presses the button of the create box: createApiKey up to its
\* await.  The box is rendered whatever the loading flag says.
ClickCreate ==
    /\ ui.modal = "closed"
    /\ ui.createClicks < MaxCreateClicks
    /\ \E isTrialing \in BOOLEAN : ShowsCreateBox(isTrialing, FALSE)
    /\ view' = [view EXCEPT !.loading = TRUE]
    /\ server' = Send([kind |-> "createApiKey", seq |-> NextSeq])
    /\ ui' = [ui EXCEPT !.createClicks = @ + 1]
    /\ UNCHANGED << engineVars, sideVars, resolverVars >>

\* createApiKey after its await: the new key is pushed.
CreateApiKeyResolves ==
    /\ \E request \in server.pending :
          /\ request.kind = "createApiKey"
          /\ server' = [Answer(request, "success") EXCEPT !.nextId = @ + 1]
          /\ view' = [view EXCEPT !.apiKeys = Append(@, ApiKey(server.nextId)),
                                  !.loading = FALSE]
    /\ ui' = [ui EXCEPT !.tracked = Append(@, "User clicked create API key button")]
    /\ UNCHANGED << engineVars, sideVars, resolverVars >>

\* createApiKey after its await: the request failed.
CreateApiKeyRejects ==
    /\ \E request \in server.pending :
          /\ request.kind = "createApiKey"
          /\ server' = Answer(request, "error")
    /\ view' = [view EXCEPT !.loading = FALSE]
    /\ ui' = [ui EXCEPT
                 !.messages = Append(@, showError("settings.api.create.error")),
                 !.tracked = Append(@, "User clicked create API key button")]
    /\ UNCHANGED << engineVars, sideVars, resolverVars >>

\* The user presses Delete on the key card: showDeleteModal up to its await.
ClickDelete ==
    /\ ui.modal = "closed"
    /\ ui.deleteClicks < MaxDeleteClicks
    /\ ShowsKeyCard
    /\ ui' = [ui EXCEPT !.modal = "open", !.deleteClicks = @ + 1]
    /\ UNCHANGED << view, server, engineVars, sideVars, resolverVars >>

\* deleteApiKey up to its await: the request for apiKeys[0].id is sent; with
\* no key left the read of apiKeys[0].id throws inside the try block.
deleteApiKey(page) ==
    IF view.apiKeys = << >>
    THEN /\ ui' = [page EXCEPT
                      !.messages = Append(@, showError("settings.api.delete.error")),
                      !.tracked = Append(@, "User clicked delete API key button")]
         /\ UNCHANGED server
    ELSE /\ server' = Send([kind |-> "deleteApiKey", id |-> view.apiKeys[1].id,
                            seq |-> NextSeq])
         /\ ui' = page

\* A showDeleteModal that deletes whatever the modal answered.
showDeleteModal_IgnoresAnswer(confirmed) ==
    /\ ui.modal = "open"
    /\ deleteApiKey([ui EXCEPT !.modal = "closed",
                               !.confirms = IF confirmed = MODAL_CONFIRM
                                            THEN @ + 1 ELSE @])
    /\ UNCHANGED << view, engineVars, sideVars, resolverVars >>

\* showDeleteModal after its await: the modal was answered.
showDeleteModal(confirmed) ==
    /\ ui.modal = "open"
    /\ IF confirmed = MODAL_CONFIRM
       THEN deleteApiKey([ui EXCEPT !.modal = "closed", !.confirms = @ + 1])
       ELSE /\ ui' = [ui EXCEPT !.modal = "closed"]
            /\ UNCHANGED server
    /\ UNCHANGED << view, engineVars, sideVars, resolverVars >>

\* The user confirms the modal.
ModalConfirmed ==
    /\ ui.modal = "open"
    /\ showDeleteModal(MODAL_CONFIRM)

\* The user cancels or closes the modal.
ModalCancelled ==
    /\ ui.modal = "open"
    /\ showDeleteModal(MODAL_CANCEL)

\* deleteApiKey after its await: the key was deleted.
DeleteApiKeyResolves ==
    /\ \E request \in server.pending :
          /\ request.kind = "deleteApiKey"
          /\ server' = Answer(request, "success")
    /\ view' = [view EXCEPT !.apiKeys = << >>]
    /\ ui' = [ui EXCEPT
                 !.messages = Append(@, showMessage("settings.api.delete.toast")),
                 !.tracked = Append(@, "User clicked delete API key button")]
    /\ UNCHANGED << engineVars, sideVars, resolverVars >>

\* deleteApiKey after its await: the request failed.
DeleteApiKeyRejects ==
    /\ \E request \in server.pending :
          /\ request.kind = "deleteApiKey"
          /\ server' = Answer(request, "error")
    /\ ui' = [ui EXCEPT
                 !.messages = Append(@, showError("settings.api.delete.error")),
                 !.tracked = Append(@, "User clicked delete API key button")]
    /\ UNCHANGED << view, engineVars, sideVars, resolverVars >>

NextSettingsApi ==
    \/ MountedHook
    \/ GetApiKeysResolves
    \/ GetApiKeysRejects
    \/ ClickCreate
    \/ CreateApiKeyResolves
    \/ CreateApiKeyRejects
    \/ ClickDelete
    \/ ModalConfirmed
    \/ ModalCancelled
    \/ DeleteApiKeyResolves
    \/ DeleteApiKeyRejects

SpecSettingsApi == InitSettingsApi /\ [][NextSettingsApi]_vars

\* ------------------------------------------------------- the module resolver
\* A third specification constructs the runner on each pair of configuration
\* strings and lets the code ask for modules.
InitAllowList ==
    /\ settings = JSExecSettings("runOnceForAllItems", FALSE)
    /\ InitTask
    /\ \E builtIn \in ConfigEntries, external \in ConfigEntries :
          InitRunner([allowedBuiltInModules |-> builtIn,
                      allowedExternalModules |-> external])
    /\ InitView(TRUE)

\* The code calls require(request).
Require ==
    /\ \E request \in Requests :
          resolutions' = resolutions \cup
              {[request |-> request,
                outcome |-> resolve(request, allowedBuiltInModules,
                                    allowedExternalModules)]}
    /\ UNCHANGED << engineVars, sideVars, jsRunnerConfig, allowedBuiltInModules,
                    allowedExternalModules, viewVars >>

NextAllowList == Require

SpecAllowList == InitAllowList /\ [][NextAllowList]_vars

\* ---------------------------------------------------------------- properties
EachMode == settings.present /\ settings.nodeMode = "runOnceForEachItem"
AllMode == settings.present /\ settings.nodeMode = "runOnceForAllItems"
InputCount == IF allData.arrived THEN Len(allData.connectionInputData) ELSE 0
Settled == pc \in {"ResultPending", "Completed"}

\* The error went through toExecutionErrorIfNeeded and came back from it.
IsNormalized(e) == "normalized" \in DOMAIN e /\ e.normalized

\* The evaluation of item idx failed: the code threw (a value, or the error
\* of a refused require), or the validator rejected what it returned.
EachItemFails(ev, idx) ==
    IF ev.threw THEN TRUE
    ELSE ev.value # Null /\ validateRunForEachItemOutput(ev.value, idx).threw

\* The evaluation of item idx produced a record of its own.
EachItemSucceeds(ev, idx) ==
    IF ev.threw THEN FALSE
    ELSE ev.value # Null /\ ~validateRunForEachItemOutput(ev.value, idx).threw

AllItemsFails(ev) ==
    IF ev.threw THEN TRUE
    ELSE ev.value # Null /\ validateRunForAllItemsOutput(ev.value).threw

\* What was thrown at the catch block by a failed evaluation.
EachItemFailure(ev, idx) ==
    IF ev.threw THEN ev.error
    ELSE validateRunForEachItemOutput(ev.value, idx).error

AllItemsFailure(ev) ==
    IF ev.threw THEN ev.error ELSE validateRunForAllItemsOutput(ev.value).error

\* The records of rd that refer to input position i.
RecordsOf(rd, i) == { k \in DOMAIN rd : rd[k].pairedItem.item = i }

\* C1: in EachItem mode without continue-on-failure, an item whose evaluation
\* fails makes the task fail with the normalized error that carries the
\* original message; nothing is returned and no later item is evaluated.
C1_AbortOnItemFailure ==
    (EachMode /\ ~settings.continueOnFail) =>
        \A j \in DOMAIN evals :
            EachItemFails(evals[j].outcome, j - 1) =>
                LET thrown == EachItemFailure(evals[j].outcome, j - 1)
                IN  /\ pc = "Failed"
                    /\ taskResult.state = "thrown"
                    /\ IsNormalized(taskResult.error)
                    /\ taskResult.error.message.type = "string"
                    /\ ("message" \in DOMAIN thrown
                           => taskResult.error.message = thrown.message)
                    /\ j = Len(evals)
                    /\ Len(contexts) = j

\* C2: in EachItem mode with continue-on-failure, a failing item never fails
\* the task: it contributes exactly one record {error: <normalized message>}
\* with its own position, the records of earlier items stay, and the items
\* after it are evaluated.
C2_ErrorRecordPerFailingItem ==
    (EachMode /\ settings.continueOnFail) =>
        /\ \A j \in DOMAIN evals :
              EachItemFails(evals[j].outcome, j - 1) =>
                  /\ Cardinality(RecordsOf(returnData, j - 1)) = 1
                  /\ \A k \in RecordsOf(returnData, j - 1) :
                        /\ DOMAIN returnData[k].json = {"error"}
                        /\ returnData[k].json.error.type = "string"
        /\ \A j \in DOMAIN evals :
              EachItemSucceeds(evals[j].outcome, j - 1) =>
                  Cardinality(RecordsOf(returnData, j - 1)) = 1
        /\ (pc = "Failed" =>
              taskResult.error.cls \in {"RequestError", "DataProxyError"})
        /\ (Settled => Len(evals) = InputCount)

\* C3: in EachItem mode an item that returns null leaves no record and does
\* not stop the loop; the output holds a record for position i exactly when
\* item i returned a valid non-null value or failed under continue-on-failure.
C3_NullIsSkipped ==
    (EachMode /\ pc # "Failed") =>
        /\ \A j \in DOMAIN evals :
              (RecordsOf(returnData, j - 1) # {})
                  <=> \/ EachItemSucceeds(evals[j].outcome, j - 1)
                      \/ /\ EachItemFails(evals[j].outcome, j - 1)
                         /\ settings.continueOnFail
        /\ \A k \in DOMAIN returnData : returnData[k] # Null
        /\ (pc = "Executing" => Len(evals) = index)
        /\ (Settled =>
              /\ Len(evals) = InputCount
              /\ result = returnData
              /\ ((\A j \in DOMAIN evals : evals[j].outcome = Return(Null))
                     => result = << >>))
        /\ (pc = "Completed" => taskResult.result = returnData)

\* Three items, each evaluation returns null, the task completes with the
\* empty output.
C3_Witness ==
    /\ EachMode
    /\ pc = "Completed"
    /\ Len(evals) = 3
    /\ \A j \in DOMAIN evals : evals[j].outcome = Return(Null)
    /\ taskResult.result = << >>

\* C4: in EachItem mode the position references of the records are 0-based,
\* below the number of input items and strictly increasing, in every state of
\* the loop and in the returned output; the record made from item i refers
\* to i.
C4_PositionsIncrease ==
    EachMode =>
        /\ \A k \in DOMAIN returnData :
              /\ returnData[k].pairedItem.item \in 0..(InputCount - 1)
              /\ returnData[k].pairedItem.item < Len(evals)
              /\ ("v" \in DOMAIN returnData[k].json
                     => returnData[k].json.v = returnData[k].pairedItem.item)
              /\ ("id" \in DOMAIN returnData[k].json
                     => returnData[k].json.id = returnData[k].pairedItem.item)
        /\ \A k \in DOMAIN returnData : \A l \in DOMAIN returnData :
              k < l => returnData[k].pairedItem.item < returnData[l].pairedItem.item
        /\ Len(returnData) <= InputCount
        /\ (Settled => result = returnData)
        /\ (pc = "Completed" => taskResult.result = returnData)

\* Three items each gave a record: positions 0, 1, 2 in that order.
C4_Witness ==
    /\ EachMode
    /\ pc = "Completed"
    /\ Len(taskResult.result) = 3
    /\ \A k \in 1..3 : taskResult.result[k].pairedItem.item = k - 1
    /\ taskResult.result[3].json = [v |-> 2]

\* C5: in AllItems mode the code is evaluated once, in one sandbox bound to
\* the full item sequence, whatever the number of items; a null result gives
\* the empty output, any other result gives what the all-items validator
\* returns for it.
C5_OneEvaluationForAllItems ==
    AllMode =>
        /\ Len(evals) <= 1
        /\ Len(contexts) <= 1
        /\ Len(evals) <= Len(contexts)
        /\ \A k \in DOMAIN contexts :
              contexts[k].items = allData.connectionInputData
        /\ (pc = "Executing" => Len(contexts) = 1 /\ Len(evals) = 0)
        /\ (Settled =>
              /\ Len(evals) = 1
              /\ Len(contexts) = 1
              /\ (evals[1].outcome = Return(Null) => result = << >>)
              /\ (~AllItemsFails(evals[1].outcome) /\ evals[1].outcome # Return(Null)
                     => result = evals[1].outcome.value.items))
        /\ (pc = "Completed" => taskResult.result = result)

\* Two or more items, the one evaluation returns null, the output is empty.
C5_Witness ==
    /\ AllMode
    /\ pc = "Completed"
    /\ InputCount >= 2
    /\ evals = << [outcome |-> Return(Null)] >>
    /\ taskResult.result = << >>

\* C6: in AllItems mode a failed evaluation or validation gives, with
\* continue-on-failure, a completed task whose output is the one record
\* {error: <normalized message>}, and without it a task that fails with the
\* normalized error.
C6_AllItemsFailureBranch ==
    (AllMode /\ Len(evals) = 1 /\ AllItemsFails(evals[1].outcome)) =>
        IF settings.continueOnFail
        THEN /\ Settled
             /\ Len(result) = 1
             /\ DOMAIN result[1] = {"json"}
             /\ DOMAIN result[1].json = {"error"}
             /\ result[1].json.error.type = "string"
        ELSE /\ pc = "Failed"
             /\ taskResult.state = "thrown"
             /\ IsNormalized(taskResult.error)
             /\ taskResult.error.message.type = "string"

\* The failure is a refused require or a validator rejection.
IsDeniedOrMismatch(e) ==
    e.type = "Error" /\ e.cls \in {"DisallowedModuleError", "ValidationError"}

\* C7: in both modes a refused require and a validator rejection are never
\* swallowed: with continue-on-failure they leave the error record a thrown
\* error leaves, without it they fail the task.
C7_DeniedAndMismatchBranch ==
    /\ AllMode /\ Len(evals) = 1 /\ AllItemsFails(evals[1].outcome)
         /\ IsDeniedOrMismatch(AllItemsFailure(evals[1].outcome))
       => LET e == AllItemsFailure(evals[1].outcome)
          IN  IF settings.continueOnFail
              THEN /\ Settled
                   /\ result = << [json |-> [error |-> e.message]] >>
              ELSE /\ pc = "Failed"
                   /\ taskResult.state = "thrown"
                   /\ IsNormalized(taskResult.error)
                   /\ taskResult.error.message = e.message
                   /\ taskResult.error.cls = e.cls
    /\ EachMode
       => \A j \in DOMAIN evals :
             (/\ EachItemFails(evals[j].outcome, j - 1)
              /\ IsDeniedOrMismatch(EachItemFailure(evals[j].outcome, j - 1)))
             => LET e == EachItemFailure(evals[j].outcome, j - 1)
                IN  IF settings.continueOnFail
                    THEN /\ Cardinality(RecordsOf(returnData, j - 1)) = 1
                         /\ \A k \in RecordsOf(returnData, j - 1) :
                               returnData[k] = [json |-> [error |-> e.message],
                                                pairedItem |-> [item |-> j - 1]]
                         /\ (pc = "Failed" =>
                               taskResult.error.cls # e.cls \/ j < Len(evals))
                    ELSE /\ pc = "Failed"
                         /\ taskResult.state = "thrown"
                         /\ IsNormalized(taskResult.error)
                         /\ taskResult.error.message = e.message
                         /\ taskResult.error.cls = e.cls
                         /\ j = Len(evals)

\* With continue-on-failure, item 0 required a refused module and item 1
\* returned a sequence: both left an error record and the task completed.
C7_Witness ==
    /\ EachMode
    /\ settings.continueOnFail
    /\ pc = "Completed"
    /\ Len(evals) >= 2
    /\ evals[1].outcome = requireResolver("disallowed-module")
    /\ evals[2].outcome = Return([type |-> "array",
                                  items |-> << [json |-> [v |-> 1]] >>])
    /\ taskResult.result[1].json.error = Str("Cannot find module 'disallowed-module'")
    /\ taskResult.result[2].pairedItem.item = 1

\* C8: for every thrown value the normalizer returns an error whose message
\* is a string; a thrown 'oops' gives the quoted text, a thrown 42 gives 42.
C8_NormalizerAlwaysReturns ==
    \A j \in DOMAIN evals :
        evals[j].outcome.threw =>
            LET v == evals[j].outcome.error
                n == toExecutionErrorIfNeeded(v)
            IN  /\ ~n.threw
                /\ n.value.message.type = "string"
                /\ (v = Str("oops") => n.value.message = Str("\"oops\""))
                /\ (v = Num(42) => n.value.message = Str("42"))

\* C9: every error executeTask rejects with came back from the normalizer.
C9_EveryFailureNormalized ==
    pc = "Failed" => IsNormalized(taskResult.error)

\* C10: one requestData(taskId, 'all') per task, made first: no sandbox, no
\* evaluation and no side-channel call before the bundle has arrived, and no
\* second request afterwards.
C10_OneBundleRequestFirst ==
    /\ Len(requests) <= 1
    /\ (pc # "Idle" => requests = << [taskId |-> TaskId, dataType |-> "all"] >>)
    /\ (pc = "Idle" => requests = << >>)
    /\ (~allData.arrived =>
          contexts = << >> /\ evals = << >> /\ rpcCalls = << >>)
    /\ (pc \in {"Idle", "BundleFetchPending"} => ~allData.arrived)
    /\ (pc \in {"Executing", "ResultPending", "Completed"} => allData.arrived)

\* A task of three items that logged and completed made one request.
C10_Witness ==
    /\ EachMode
    /\ pc = "Completed"
    /\ Len(evals) = 3
    /\ Len(contexts) = 3
    /\ rpcCalls # << >>
    /\ Len(requests) = 1

\* The evaluation number j of an EachItem task settled as a success, as a
\* skip (null), or as a failure that was normalized into an error record.
SettledForNext(j) ==
    LET ev == evals[j].outcome
    IN  \/ EachItemSucceeds(ev, j - 1)
        \/ ev = Return(Null)
        \/ /\ EachItemFails(ev, j - 1)
           /\ settings.continueOnFail
           /\ ~toExecutionErrorIfNeeded(EachItemFailure(ev, j - 1)).threw
           /\ \E k \in RecordsOf(returnData, j - 1) :
                  "error" \in DOMAIN returnData[k].json

\* C11: in EachItem mode at most one evaluation is awaited at a time, the
\* evaluations start in increasing index order, and the evaluation of item
\* n+1 starts only after that of item n settled as a success, a skip or a
\* normalized failure.
C11_OneEvaluationAtATime ==
    EachMode =>
        /\ Len(contexts) - Len(evals) \in {0, 1}
        /\ (Len(contexts) = Len(evals) + 1) <=> (pc = "Executing")
        /\ \A k \in DOMAIN contexts : contexts[k].itemIndex = k - 1
        /\ \A j \in DOMAIN evals : evals[j].index = j - 1
        /\ \A k \in DOMAIN contexts :
              k > 1 => (k - 1 \in DOMAIN evals /\ SettledForNext(k - 1))

\* Item 2 is being evaluated after item 0 failed into an error record and
\* item 1 was skipped.
C11_Witness ==
    /\ EachMode
    /\ pc = "Executing"
    /\ Len(contexts) = 3
    /\ EachItemFails(evals[1].outcome, 0)
    /\ evals[2].outcome = Return(Null)

\* C12: no object reachable from the context of the unit being evaluated
\* carries a property written by the code of another unit: everything a
\* context holds was made for its unit alone.
C12_NoSharedMutableState ==
    pc = "Executing" =>
        LET context == contexts[Len(contexts)]
        IN  \A m \in marks :
                m.object \in ReachableObjects(context) => m.unit = UnitOf(context)

\* The bundle that arrived came without an environment-provider state.
OmitsProviderState == allData.arrived /\ "envProviderState" \notin DOMAIN allData

\* The provider state the data proxy of context number k was built with.
ProviderStateOf(k) == contexts[k].dataProxy.envProviderState

\* C13 as stated: when the bundle omits the environment-provider state, every
\* data proxy is built with no environment variables, environment access
\* blocked and the process flag true; a state the bundle carries is used
\* unchanged.
C13_DefaultBlocksEnvAccess ==
    \A k \in DOMAIN contexts :
        IF OmitsProviderState
        THEN ProviderStateOf(k) = [env |-> {}, isEnvAccessBlocked |-> TRUE,
                                   isProcessAvailable |-> TRUE]
        ELSE ProviderStateOf(k) = allData.envProviderState

\* C13, amended: when the bundle omits the environment-provider state, every
\* data proxy, for every item index and in both modes, is built with no
\* environment variables, environment access NOT blocked and the process flag
\* true; a state the bundle carries is used unchanged.
C13_DefaultHidesEnv ==
    \A k \in DOMAIN contexts :
        /\ contexts[k].dataProxy.itemIndex = IF EachMode THEN k - 1 ELSE allData.itemIndex
        /\ IF OmitsProviderState
           THEN /\ ProviderStateOf(k).env = {}
                /\ ProviderStateOf(k).isEnvAccessBlocked = FALSE
                /\ ProviderStateOf(k).isProcessAvailable = TRUE
           ELSE ProviderStateOf(k) = allData.envProviderState

\* The second item of an EachItem task is evaluated on a bundle that came
\* without a provider state.
C13_Witness ==
    /\ EachMode
    /\ OmitsProviderState
    /\ pc = "Executing"
    /\ Len(contexts) = 2

\* C14: the host globals of every context are exactly the timer primitives,
\* the byte-buffer constructor, the text encoders and decoders with their
\* streaming variants and the form-data constructor; in particular neither
\* eval nor the Function constructor is among them.
C14_OnlyListedPrimitives ==
    \A k \in DOMAIN contexts :
        contexts[k].natives =
            { "setTimeout", "setInterval", "setImmediate", "clearTimeout",
              "clearInterval", "clearImmediate", "Buffer", "TextDecoder",
              "TextDecoderStream", "TextEncoder", "TextEncoderStream",
              "FormData" }

\* chars[i..j] is one of the pieces of chars between its commas.
IsPiece(chars, i, j) ==
    /\ i \in 1..(Len(chars) + 1)
    /\ j \in (i - 1)..Len(chars)
    /\ i = 1 \/ chars[i - 1] = ","
    /\ j = Len(chars) \/ chars[j + 1] = ","
    /\ \A k \in i..j : chars[k] # ","

\* name is chars[i..j] without the blanks around it.
IsTrimmed(name, chars, i, j) ==
    \E a \in i..(j + 1), b \in (i - 1)..j :
        /\ \A k \in i..(a - 1) : chars[k] = " "
        /\ \A k \in (b + 1)..j : chars[k] = " "
        /\ name = (IF a <= b THEN SubSeq(chars, a, b) ELSE << >>)
        /\ name # << >> => (Head(name) # " " /\ name[Len(name)] # " ")

\* The list built by the constructor is the one configuration entry describes.
ListMatches(list, entry) ==
    LET chars == IF entry.set THEN entry.chars ELSE << >>
    IN  /\ list.all <=> (entry.set /\ entry.chars = << "*" >>)
        /\ ~list.all =>
              /\ \A name \in list.modules :
                    \E i \in 1..(Len(chars) + 1), j \in 0..Len(chars) :
                        IsPiece(chars, i, j) /\ IsTrimmed(name, chars, i, j)
              /\ \A i \in 1..(Len(chars) + 1), j \in 0..Len(chars) :
                    IsPiece(chars, i, j) =>
                        \E name \in list.modules : IsTrimmed(name, chars, i, j)
        /\ ~entry.set => (~list.all /\ list.modules \cap Requests = {})

\* C16: each allow-list follows from its own configuration string alone
\* (permit-all exactly for "*", else the trimmed comma-separated entries, and
\* nothing real when unset); a request is granted exactly when its applicable
\* list permits it, whatever the other list says, and is otherwise refused
\* with an error naming it.
C16_AllowListsIndependent ==
    /\ ListMatches(allowedBuiltInModules, jsRunnerConfig.allowedBuiltInModules)
    /\ ListMatches(allowedExternalModules, jsRunnerConfig.allowedExternalModules)
    /\ \A r \in resolutions :
          LET list == IF r.request \in BuiltInModules
                      THEN allowedBuiltInModules ELSE allowedExternalModules
              permitted == IF list.all THEN TRUE ELSE r.request \in list.modules
          IN  IF permitted
              THEN r.outcome = Return([type |-> "module", name |-> Text(r.request)])
              ELSE /\ r.outcome.threw
                   /\ r.outcome.error.message
                          = Str("Cannot find module '" \o Text(r.request) \o "'")

\* Built-in list " fs ,os", external list "*,fs": fs was granted through its
\* trimmed entry, and the package ms was refused although the other list
\* names fs and holds a star.
C16_Witness ==
    /\ jsRunnerConfig.allowedBuiltInModules
          = Configured(<< " ", "f", "s", " ", ",", "o", "s" >>)
    /\ jsRunnerConfig.allowedExternalModules = Configured(<< "*", ",", "f", "s" >>)
    /\ \E r \in resolutions : r.request = << "f", "s" >> /\ ~r.outcome.threw
    /\ \E r \in resolutions : r.request = << "m", "s" >> /\ r.outcome.threw

UnitOfLog(call) ==
    CHOOSE u \in 0..MaxItems : call.args[1] \in {DecimalText(u), LateText(u)}

\* C17 as stated: in EachItem mode every log call of item i is sent before
\* any log call of an item j > i, timer callbacks included.
C17_LogsInItemOrder ==
    EachMode =>
        \A p \in DOMAIN rpcCalls, q \in DOMAIN rpcCalls :
            p < q => UnitOfLog(rpcCalls[p]) <= UnitOfLog(rpcCalls[q])

\* C17, amended: in EachItem mode a log call is sent when it is made, and
\* one made by the code of item i while the evaluation of item i is awaited
\* comes after every log call of an earlier item and before every log call of
\* a later one.  (A callback that item i left with setTimeout may log once a
\* later item has logged.)
C17_LogsOfAwaitedItemInOrder ==
    [][ (EachMode /\ rpcCalls' # rpcCalls) =>
            LET call == rpcCalls'[Len(rpcCalls')]
            IN  /\ rpcCalls' = Append(rpcCalls, call)
                /\ (pc = "Executing" /\ UnitOfLog(call) = index) =>
                      \A k \in DOMAIN rpcCalls :
                          UnitOfLog(rpcCalls[k]) <= UnitOfLog(call) ]_vars

\* Items 0 and 1 logged in turn, then the callback left by item 0 logged.
C17_Witness ==
    /\ EachMode
    /\ Len(rpcCalls) = 3
    /\ rpcCalls[1].args = << "0" >>
    /\ rpcCalls[2].args = << "1" >>
    /\ rpcCalls[3].args = << LateText(0) >>

\* The steps of the chain Idle, BundleFetchPending, Executing, ResultPending,
\* Completed, with Failed entered from the two states that can fail.
ChainSteps ==
    { << "Idle", "BundleFetchPending" >>, << "BundleFetchPending", "Executing" >>,
      << "Executing", "ResultPending" >>, << "ResultPending", "Completed" >>,
      << "BundleFetchPending", "Failed" >>, << "Executing", "Failed" >> }

\* C18 as stated: the engine moves along the chain only, skipping no state.
C18_NoStateSkipped == [][pc' # pc => << pc, pc' >> \in ChainSteps]_vars

\* The task is over, as a result or as a failure, and not as both.
Over ==
    \/ /\ pc = "Completed"
       /\ taskResult = [state |-> "returned", result |-> result,
                        customData |-> allData.metadata]
    \/ /\ pc = "Failed"
       /\ taskResult.state = "thrown"

\* C18, amended: the engine moves along the chain without revisiting a state
\* and skips none, except that an EachItem task whose bundle has no items goes
\* from BundleFetchPending to ResultPending with no evaluation; it leaves
\* Executing only when an awaited evaluation settles; there is at most one
\* evaluation in AllItems mode and one per input item in EachItem mode; the
\* result and the failure exclude each other and stay; and when the bundle
\* request is answered and every evaluation settles the task ends as one of
\* the two.
C18_Lifecycle ==
    /\ [][ /\ pc' # pc =>
                \/ << pc, pc' >> \in ChainSteps
                \/ /\ << pc, pc' >> = << "BundleFetchPending", "ResultPending" >>
                   /\ EachMode /\ Len(allData'.connectionInputData) = 0
           /\ (pc = "Executing" /\ pc' # "Executing") => Len(evals') = Len(evals) + 1
           /\ pc \in {"Completed", "Failed"} => UNCHANGED << pc, taskResult >> ]_vars
    /\ [](Len(evals) <= (IF AllMode THEN 1 ELSE InputCount))
    /\ [](pc \in {"Completed", "Failed"} <=> taskResult.state # "pending")
    /\ [](pc \in {"Completed", "Failed"} => Over)
    /\ <>(pc \in {"Completed", "Failed"})

\* An EachItem task of two items ended with a result after two evaluations.
C18_Witness ==
    /\ EachMode
    /\ InputCount = 2
    /\ Len(evals) = 2
    /\ pc = "Completed"
    /\ Over

\* C19: the view never holds more than one key.
C19_AtMostOneKeyShown == Len(view.apiKeys) <= 1

DeleteEvent == "User clicked delete API key button"
DeleteEvents == { i \in DOMAIN ui.tracked : ui.tracked[i] = DeleteEvent }
PendingDeletes == { r \in server.pending : r.kind = "deleteApiKey" }

\* The store answered a delete request with status in this step.
DeleteAnswered(status) ==
    /\ Len(server'.answered) = Len(server.answered) + 1
    /\ server'.answered[Len(server'.answered)]
          = [kind |-> "deleteApiKey", status |-> status]

\* C20: a delete request is sent only in the step in which the user confirms
\* the open modal and asks for the key shown; when it succeeds the list
\* becomes empty and a success message is shown, when it fails the list stays
\* and an error is shown, and either way the delete event is tracked once:
\* one event for each confirmation whose request is not under way any more.
C20_DeleteAfterConfirmation ==
    /\ [][ /\ \A r \in server'.pending \ server.pending :
                 r.kind = "deleteApiKey" =>
                     /\ ui.modal = "open" /\ ui'.modal = "closed"
                     /\ ui'.confirms = ui.confirms + 1
                     /\ ShowsKeyCard /\ r.id = view.apiKeys[1].id
           /\ DeleteAnswered("success") =>
                 /\ view'.apiKeys = << >>
                 /\ ui'.messages = Append(ui.messages,
                                          showMessage("settings.api.delete.toast"))
                 /\ ui'.tracked = Append(ui.tracked, DeleteEvent)
           /\ DeleteAnswered("error") =>
                 /\ view'.apiKeys = view.apiKeys
                 /\ ui'.messages = Append(ui.messages,
                                          showError("settings.api.delete.error"))
                 /\ ui'.tracked = Append(ui.tracked, DeleteEvent) ]_vars
    /\ [](Cardinality(DeleteEvents) + Cardinality(PendingDeletes) = ui.confirms)

\* Two confirmed deletions were answered, one with success and one with an
\* error; the list is empty and two delete events were tracked.
C20_Witness ==
    /\ ui.confirms = 2
    /\ \E i \in DOMAIN server.answered :
          server.answered[i] = [kind |-> "deleteApiKey", status |-> "success"]
    /\ \E i \in DOMAIN server.answered :
          server.answered[i] = [kind |-> "deleteApiKey", status |-> "error"]
    /\ Cardinality(DeleteEvents) = 2
    /\ view.apiKeys = << >>

====
